---- MODULE Spec2Model ----
(***************************************************************************)
(* Model of NT_DATA/evalutate_unet.py: the evaluation script of a U-Net    *)
(* segmentation model.  The script is one sequential run:                  *)
(*   load -> binarise masks -> validate -> predict -> range check ->       *)
(*   precision/recall sweep -> F1 arg-max -> threshold -> post-process     *)
(*   (3x3 closing, connected components, size filter) -> Dice/IoU ->       *)
(*   confusion matrix -> clinical metrics -> plots.                        *)
(* Pixel values and probabilities are integers in units of 1/Scale.        *)
(***************************************************************************)
EXTENDS Integers, Sequences, FiniteSets, TLC

\* ------------------------------------------------------------------ bounds
Height == 10            \* rows of one image
Width == 14             \* columns of one image
MaxShift == 1           \* how far a test rectangle is moved off the corner
MaxBatch == 5           \* largest number of test images
Scale == 10             \* probabilities are k/Scale

\* ------------------------------------------------------- program constants
MinSize == 100          \* line 61: sizes[i] >= 100
SampleCount == 5        \* line 156: np.random.choice(len(X_test), 5, ...)
EpsDen == 1000000       \* lines 38 and 72: 1e-6 = 1/EpsDen
KernelRadius == 1       \* line 45: np.ones((3, 3)), anchor at the centre

Pixels == (1..Height) \X (1..Width)

SetMax(S) == CHOOSE x \in S : \A y \in S : y <= x
SetMin(S) == CHOOSE x \in S : \A y \in S : x <= y
Larger(a, b) == IF a < b THEN b ELSE a
Smaller(a, b) == IF a < b THEN a ELSE b

\* The pixels of the image under the kernel centred at p.  OpenCV's default
\* border for morphology ignores the part of the kernel outside the image.
Window(p) ==
    {<<r, c>> : r \in Larger(1, p[1] - KernelRadius)..Smaller(Height, p[1] + KernelRadius),
                c \in Larger(1, p[2] - KernelRadius)..Smaller(Width, p[2] + KernelRadius)}

\* cv2.dilate / cv2.erode with the 3x3 all-ones kernel: window max / min.
Dilate(m) == [p \in Pixels |-> SetMax({m[q] : q \in Window(p)})]
Erode(m) == [p \in Pixels |-> SetMin({m[q] : q \in Window(p)})]

\* cv2.morphologyEx(mask, cv2.MORPH_CLOSE, kernel): dilation, then erosion.
MorphClose(m) == Erode(Dilate(m))

Foreground(m) == {p \in Pixels : m[p] # 0}
Zeros == [p \in Pixels |-> 0]

\* 8-connected flood fill of the foreground set fg from the frontier.
RECURSIVE Flood(_, _, _)
Flood(seen, frontier, fg) ==
    IF frontier = {} THEN seen
    ELSE LET nxt == ((UNION {Window(p) : p \in frontier}) \cap fg) \ seen
         IN  Flood(seen \cup nxt, nxt, fg)

RasterFirst(S) ==
    CHOOSE p \in S : \A q \in S : p[1] < q[1] \/ (p[1] = q[1] /\ p[2] <= q[2])

\* cv2.connectedComponentsWithStats(processed): default connectivity 8, label
\* 0 is the background, foreground labels 1..n_labels-1; the last column of
\* stats is the area of each label.  Labels are numbered here in raster
\* order of their first pixel; the loop visits every label, so the numbering
\* does not reach the result.
RECURSIVE LabelFrom(_, _, _)
LabelFrom(rest, k, lab) ==
    IF rest = {} THEN [n_labels |-> k, labels |-> lab]
    ELSE LET seed == RasterFirst(rest)
             comp == Flood({seed}, {seed}, rest)
         IN  LabelFrom(rest \ comp, k + 1,
                       [p \in Pixels |-> IF p \in comp THEN k ELSE lab[p]])

ConnectedComponents(m) ==
    LET res == LabelFrom(Foreground(m), 1, Zeros)
    IN  [n_labels |-> res.n_labels,
         labels |-> res.labels,
         area |-> [l \in 0..(res.n_labels - 1) |->
                      Cardinality({p \in Pixels : res.labels[p] = l})]]

\* (variant: stats[:, -1], the background area not skipped)
SizesWithBackground(cc) == [i \in 0..(cc.n_labels - 2) |-> cc.area[i]]
\* Line 58: sizes = stats[1:, -1], the areas without the background's.
SizesOf(cc) == [i \in 0..(cc.n_labels - 2) |-> cc.area[i + 1]]

\* (variant: sizes[i] > 100)
KeepSizeStrict(size) == size > MinSize
\* Line 61: sizes[i] >= 100.
KeepSize(size) == size >= MinSize

\* Lines 60-62: for i in range(n_labels-1): if sizes[i] >= 100: the pixels
\* labelled i+1 are set to 1.
RECURSIVE FilterLoop(_, _, _)
FilterLoop(i, cc, proc) ==
    IF i >= cc.n_labels - 1 THEN proc
    ELSE FilterLoop(i + 1, cc,
            IF KeepSize(SizesOf(cc)[i])
            THEN [p \in Pixels |-> IF cc.labels[p] = i + 1 THEN 1 ELSE proc[p]]
            ELSE proc)

\* ------------------------------------------------------------ arithmetic
\* Exact natural-number arithmetic on little-endian digit sequences, used to
\* compare the F1 quotients without overflow.  The script computes them in
\* IEEE double precision; the model compares the exact quotients.
Base == 100 * 100

RECURSIVE BigFromInt(_)
BigFromInt(n) == IF n = 0 THEN <<>> ELSE <<n % Base>> \o BigFromInt(n \div Base)

RestOf(a) == IF a = <<>> THEN <<>> ELSE Tail(a)
DigitOf(a) == IF a = <<>> THEN 0 ELSE Head(a)

RECURSIVE BigAdd(_, _, _)
BigAdd(a, b, carry) ==
    IF a = <<>> /\ b = <<>> THEN BigFromInt(carry)
    ELSE LET x == DigitOf(a) + DigitOf(b) + carry
         IN  <<x % Base>> \o BigAdd(RestOf(a), RestOf(b), x \div Base)

RECURSIVE BigScale(_, _, _)
BigScale(a, m, carry) ==
    IF m = 0 THEN <<>>
    ELSE IF a = <<>> THEN BigFromInt(carry)
    ELSE LET x == Head(a) * m + carry
         IN  <<x % Base>> \o BigScale(Tail(a), m, x \div Base)

RECURSIVE BigMul(_, _)
BigMul(a, b) ==
    IF a = <<>> \/ b = <<>> THEN <<>>
    ELSE LET hi == BigMul(a, Tail(b))
         IN  BigAdd(BigScale(a, Head(b), 0),
                    IF hi = <<>> THEN <<>> ELSE <<0>> \o hi, 0)

RECURSIVE BigLessFrom(_, _, _)
BigLessFrom(a, b, i) ==
    IF i = 0 THEN FALSE
    ELSE IF a[i] # b[i] THEN a[i] < b[i]
    ELSE BigLessFrom(a, b, i - 1)

BigLess(a, b) ==
    IF Len(a) # Len(b) THEN Len(a) < Len(b) ELSE BigLessFrom(a, b, Len(a))

\* A floating-point value: the quotient n/d, or NaN.
Num(a, b) == [k |-> "num", n |-> a, d |-> b]
NaN == [k |-> "nan", n |-> 0, d |-> 0]
IsNaN(x) == x.k = "nan"

\* (variant: a zero guard that yields 0)
GuardedDivide(a, b) == IF b = 0 THEN Num(0, 1) ELSE Num(a, b)
\* numpy division of two integer scalars: x/0 with x = 0 is NaN and a
\* RuntimeWarning, never an exception (numerators here are <= denominators).
NpDivide(a, b) == IF b = 0 THEN NaN ELSE Num(a, b)

\* ---------------------------------------------------- precision/recall sweep
RECURSIVE SortedDesc(_)
SortedDesc(S) ==
    IF S = {} THEN <<>> ELSE LET x == SetMax(S) IN <<x>> \o SortedDesc(S \ {x})

Reverse(s) == [i \in 1..Len(s) |-> s[Len(s) + 1 - i]]

RECURSIVE SumSeq(_)
SumSeq(s) == IF s = <<>> THEN 0 ELSE Head(s) + SumSeq(Tail(s))

\* The positions of the flattened batch: image index and pixel.
Flat(n) == (1..n) \X Pixels

\* sklearn _binary_clf_curve: one threshold per distinct score, descending;
\* tps/fps count the samples with score >= threshold (pos_label = 1).
BinaryClfCurve(y, raw, n) ==
    LET desc == SortedDesc({raw[i][p] : i \in 1..n, p \in Pixels})
        tps == [j \in 1..Len(desc) |->
                   Cardinality({x \in Flat(n) : /\ raw[x[1]][x[2]] >= desc[j]
                                                /\ y[x[1]][x[2]] = 1})]
        all == [j \in 1..Len(desc) |->
                   Cardinality({x \in Flat(n) : raw[x[1]][x[2]] >= desc[j]})]
    IN  [thresholds |-> desc, tps |-> tps,
         fps |-> [j \in 1..Len(desc) |-> all[j] - tps[j]]]

\* sklearn precision_recall_curve.  Both behaviours of the library are
\* modelled: "current" keeps every threshold and sets recall to 1 when there
\* is no positive label; "legacy" stops at the first threshold with full
\* recall and divides by tps[-1] (NaN when it is 0).  The outputs are in
\* increasing threshold order, followed by the point precision 1, recall 0.
LibVariants == {"current", "legacy"}

PrecisionRecallCurve(variant, y, raw, n) ==
    LET c == BinaryClfCurve(y, raw, n)
        m == Len(c.thresholds)
        total == c.tps[m]
        last_ind == IF variant = "legacy"
                    THEN SetMin({j \in 1..m : c.tps[j] >= total})
                    ELSE m
        prec == [j \in 1..last_ind |-> Num(c.tps[j], c.tps[j] + c.fps[j])]
        rec == [j \in 1..last_ind |->
                   IF total = 0
                   THEN IF variant = "legacy" THEN NaN ELSE Num(1, 1)
                   ELSE Num(c.tps[j], total)]
    IN  [precisions |-> Append(Reverse(prec), Num(1, 1)),
         recalls |-> Append(Reverse(rec), Num(0, 1)),
         thresholds |-> Reverse(SubSeq(c.thresholds, 1, last_ind))]

\* Line 38: 2 * (P * R) / (P + R + 1e-6), as numerator and denominator.
F1Value(P, R) ==
    IF IsNaN(P) \/ IsNaN(R) THEN [k |-> "nan", n |-> <<>>, d |-> <<>>]
    ELSE [k |-> "num",
          n |-> BigMul(BigFromInt(2 * P.n * R.n), BigFromInt(EpsDen)),
          d |-> BigAdd(BigMul(BigFromInt(P.n * R.d + R.n * P.d), BigFromInt(EpsDen)),
                       BigFromInt(P.d * R.d), 0)]

F1Less(x, y) == BigLess(BigMul(x.n, y.d), BigMul(y.n, x.d))

\* (variant: the last maximum instead of the first)
ArgMaxLast(f) ==
    LET nans == {i \in 1..Len(f) : IsNaN(f[i])}
        best == {i \in 1..Len(f) : \A j \in 1..Len(f) : ~F1Less(f[i], f[j])}
    IN  IF nans # {} THEN SetMin(nans) - 1 ELSE SetMax(best) - 1
\* np.argmax: the first NaN if there is one, else the first maximum.
\* The result is a 0-based index.
ArgMax(f) ==
    LET nans == {i \in 1..Len(f) : IsNaN(f[i])}
        best == {i \in 1..Len(f) : \A j \in 1..Len(f) : ~F1Less(f[i], f[j])}
    IN  IF nans # {} THEN SetMin(nans) - 1 ELSE SetMin(best) - 1

F1Scores(precisions, recalls) ==
    [i \in 1..Len(precisions) |-> F1Value(precisions[i], recalls[i])]

\* ------------------------------------------------------------- the inputs
\* NT_DATA/preprocessed/test_images.npy, test_masks.npy, unet_best_model.h5
\* and the installed sklearn are the run's environment.  A test image is
\* identified with the response of the network to it: a region of the image,
\* the probability inside it and the probability outside it.
Rect(r0, c0, h, w) == {<<r, c>> : r \in r0..(r0 + h - 1), c \in c0..(c0 + w - 1)} \cap Pixels

Half == Scale \div 2
High == Scale - 2
Low == Scale \div 5

Scene(region, inside, outside) == [region |-> region, inside |-> inside, outside |-> outside]

\* model.predict on one image (line 27).
ModelPredict(x) == [p \in Pixels |-> IF p \in x.region THEN x.inside ELSE x.outside]

\* How a mask file stores background and foreground, and its dtype.
Encodings ==
    { [dtype |-> "uint8", zero |-> 0, one |-> Scale],          \* 0 / 1
      [dtype |-> "uint8", zero |-> 0, one |-> 255 * Scale],    \* 0 / 255
      [dtype |-> "float64", zero |-> Half, one |-> High] }     \* soft labels
PlainEncoding == [dtype |-> "uint8", zero |-> 0, one |-> Scale]

MaskFile(region, enc) == [p \in Pixels |-> IF p \in region THEN enc.one ELSE enc.zero]

\* Rectangles around MinSize pixels (99, 100, 110, 90), near the image corner,
\* with an optional missing pixel and an optional extra pixel to the right.
RectSizes == {<<9, 11>>, <<10, 10>>, <<10, 11>>, <<9, 10>>}
Shifts == {0, MaxShift}

ShapesAt(dr, dc, h, w) ==
    LET rect == Rect(1 + dr, 1 + dc, h, w)
        holes == { {}, {<<dr + 5, dc + 5>>}, {<<dr + 1, dc + 1>>},
                   {<<dr + 1, dc + 4>>} }
        extras == { {}, {<<dr + 5, dc + w + 2>>}, {<<dr + 5, dc + w + 4>>} }
    IN  { (rect \ hole) \cup (e \cap Pixels) : hole \in holes, e \in extras }

RichShapes ==
    UNION { ShapesAt(x[1], x[2], x[3][1], x[3][2])
            : x \in { y \in Shifts \X Shifts \X RectSizes :
                        y[1] + y[3][1] <= Height /\ y[2] + y[3][2] <= Width } }

BigRect == Rect(1, 1, 10, 10)
WideRect == Rect(1, 1, Height, Width - 1)

\* Family A: one image, ground truth all foreground, so that the binary
\* prediction handed to the post-processing loop is the shape itself.
ShapeBatches ==
    { [images |-> <<Scene(s, Scale, Half)>>,
       masks |-> <<MaskFile(Pixels, PlainEncoding)>>,
       dtype |-> PlainEncoding.dtype] : s \in RichShapes }

\* Family B: one or two images over a catalogue of network responses and
\* ground truths, under every mask encoding.
Scenes ==
    { Scene(BigRect, High, Low),                \* a large confident region
      Scene({}, Half, Half),                    \* uniform probability
      Scene(Pixels \ {<<5, 5>>}, Scale, Half),  \* everything but one pixel
      Scene(Rect(2, 2, 3, 3), High, 0),         \* a small region
      Scene(BigRect, Scale + 1, Low),           \* an output above 1
      Scene(BigRect, High, 0 - 1) }             \* an output below 0
Truths == { {}, Pixels, BigRect, WideRect }
SecondCases == { <<Scene(BigRect, High, Low), WideRect>>,
                 <<Scene({}, Half, Half), {}>>,
                 <<Scene(Rect(2, 2, 3, 3), High, 0), Pixels>> }

MixedBatches ==
    { [images |-> <<x>>, masks |-> <<MaskFile(g, enc)>>, dtype |-> enc.dtype]
        : x \in Scenes, g \in Truths, enc \in Encodings }
    \cup
    { [images |-> <<x, c[1]>>,
       masks |-> <<MaskFile(g, enc), MaskFile(c[2], enc)>>,
       dtype |-> enc.dtype]
        : x \in Scenes, g \in Truths, c \in SecondCases, enc \in Encodings }

\* Family C: enough images for the sampled visualisations.
Repeat(x, n) == [i \in 1..n |-> x]
LargeBatches ==
    { [images |-> Repeat(Scene(BigRect, High, Low), n),
       masks |-> Repeat(MaskFile(g, PlainEncoding), n),
       dtype |-> PlainEncoding.dtype]
        : n \in SampleCount..MaxBatch, g \in {WideRect, Pixels} }

Batches == ShapeBatches \cup MixedBatches \cup LargeBatches

\* (variant: the loaded value kept as it is)
KeepMaskValue(v) == v
\* --------------------------------------------------- operators of the script
\* Line 18: (Y_test > 0.5).astype(np.uint8), on one pixel value v/Scale.
BinarizeMask(v) == IF 2 * v > Scale THEN 1 ELSE 0

\* Lines 22-23: the two assertions on the masks.
MasksBinary(y) == \A i \in 1..Len(y) : \A p \in Pixels : y[i][p] <= 1 /\ y[i][p] >= 0
MasksUint8(dtype) == dtype = "uint8"

\* (variant: no range check)
InRangeAny(v) == TRUE
\* Line 30: raw_preds.max() <= 1.0 and raw_preds.min() >= 0.0.
InRange(v) == v <= Scale /\ v >= 0

\* (variant: >= instead of >)
BinarizeInclusive(v, thr) == IF v >= thr THEN 1 ELSE 0
\* Line 42: (raw_preds > optimal_threshold).astype(np.uint8), on one pixel.
Binarize(v, thr) == IF v > thr THEN 1 ELSE 0

\* (variant: the first mask in every iteration)
LoopMaskFirst(batch, i) == batch[1]
\* Lines 48-49: the mask of the current loop iteration.
LoopMask(batch, i) == batch[i]

\* (variant: processed not reset to zeros before the loop)
SizeFilterNoReset(closed, comps) ==
    IF comps.n_labels > 1 THEN FilterLoop(0, comps, closed) ELSE closed
\* Lines 57-62: the branch on n_labels and the size filter.
SizeFilter(closed, comps) ==
    IF comps.n_labels > 1 THEN FilterLoop(0, comps, Zeros) ELSE closed

\* Lines 70-72: dice_score, 2*I / (sum(y_true) + sum(y_pred) + 1e-6).
RECURSIVE SortedAsc(_)
SortedAsc(S) ==
    IF S = {} THEN <<>> ELSE LET x == SetMin(S) IN <<x>> \o SortedAsc(S \ {x})

\* np.sum of a batch: each value times the number of pixels that hold it.
SumBatch(y, n) ==
    LET vals == SortedAsc({y[i][p] : i \in 1..n, p \in Pixels})
    IN  SumSeq([k \in 1..Len(vals) |->
                   vals[k] * Cardinality({x \in Flat(n) : y[x[1]][x[2]] = vals[k]})])

DiceScore(y, q, n) ==
    LET prod == [i \in 1..n |-> [p \in Pixels |-> y[i][p] * q[i][p]]]
    IN  Num(2 * SumBatch(prod, n) * EpsDen,
            (SumBatch(y, n) + SumBatch(q, n)) * EpsDen + 1)

\* Line 76: jaccard_score(..., average='binary', zero_division=0).
JaccardScore(y, q, n) ==
    LET both == {x \in Flat(n) : y[x[1]][x[2]] = 1 /\ q[x[1]][x[2]] = 1}
        either == {x \in Flat(n) : y[x[1]][x[2]] = 1 \/ q[x[1]][x[2]] = 1}
    IN  IF either = {} THEN Num(0, 1)
        ELSE Num(Cardinality(both), Cardinality(either))

\* Line 91: confusion_matrix(y_true, y_pred).ravel().  The labels are the
\* values that occur in y_true or y_pred, so the matrix is 1x1 when only one
\* value occurs.
ConfusionRavel(y, q, n) ==
    LET labs == SortedAsc({y[i][p] : i \in 1..n, p \in Pixels}
                          \cup {q[i][p] : i \in 1..n, p \in Pixels})
        L == Len(labs)
    IN  [k \in 1..(L * L) |->
            Cardinality({x \in Flat(n) : /\ y[x[1]][x[2]] = labs[(k - 1) \div L + 1]
                                         /\ q[x[1]][x[2]] = labs[((k - 1) % L) + 1]})]

\* Line 156: np.random.choice(n, 5, replace=False): 5 distinct indices.
SampleChoices(n) ==
    {c \in [1..SampleCount -> 0..(n - 1)] :
        \A i, j \in 1..SampleCount : i # j => c[i] # c[j]}

\* ------------------------------------------------------------------- state
VARIABLES
    lib,                  \* which precision_recall_curve is installed
    test_images_npy,      \* the image file (as network responses)
    test_masks_npy,       \* the mask file: [data, dtype]
    pc,                   \* the statement to run next
    failure,              \* "none", or the exception that ended the run
    n_test,               \* len(X_test)
    Y_test,               \* [data, dtype]
    raw_preds,
    precisions, recalls, thresholds,
    optimal_idx, optimal_threshold,
    preds,
    img, processed, comps, postprocessed_preds,
    original_dice, original_iou, processed_dice, processed_iou,
    confusion, sensitivity, specificity, precision,
    printed,              \* the console lines, in order
    files,                \* the image files written
    sample_indices, vis

envVars == <<lib, test_images_npy, test_masks_npy>>
loadVars == <<n_test, Y_test>>
prVars == <<precisions, recalls, thresholds>>
thrVars == <<optimal_idx, optimal_threshold>>
postVars == <<img, processed, comps, postprocessed_preds>>
scoreVars == <<original_dice, original_iou, processed_dice, processed_iou>>
clinVars == <<confusion, sensitivity, specificity, precision>>
outVars == <<printed, files>>
visVars == <<sample_indices, vis>>
vars == <<envVars, pc, failure, loadVars, raw_preds, prVars, thrVars, preds,
          postVars, scoreVars, clinVars, outVars, visVars>>

NoComps == [n_labels |-> 0, labels |-> Zeros, area |-> <<>>]
NoCounts == [tn |-> 0, fp |-> 0, fn |-> 0, tp |-> 0]

Init ==
    /\ lib \in LibVariants
    /\ \E b \in Batches :
          /\ test_images_npy = b.images
          /\ test_masks_npy = [data |-> b.masks, dtype |-> b.dtype]
    /\ pc = "load"
    /\ failure = "none"
    /\ n_test = 0
    /\ Y_test = [data |-> <<>>, dtype |-> "none"]
    /\ raw_preds = <<>>
    /\ precisions = <<>> /\ recalls = <<>> /\ thresholds = <<>>
    /\ optimal_idx = 0 /\ optimal_threshold = 0
    /\ preds = <<>>
    /\ img = 0 /\ processed = Zeros /\ comps = NoComps /\ postprocessed_preds = <<>>
    /\ original_dice = NaN /\ original_iou = NaN
    /\ processed_dice = NaN /\ processed_iou = NaN
    /\ confusion = NoCounts
    /\ sensitivity = NaN /\ specificity = NaN /\ precision = NaN
    /\ printed = <<>> /\ files = {}
    /\ sample_indices = <<>> /\ vis = 0

Running(stage) == pc = stage /\ failure = "none"
Raise(what) == failure' = what /\ pc' = pc
Goto(stage) == pc' = stage /\ failure' = failure

\* Lines 14-15.
Load ==
    /\ Running("load")
    /\ n_test' = Len(test_images_npy)
    /\ Y_test' = test_masks_npy
    /\ Goto("binarize_masks")
    /\ UNCHANGED <<envVars, raw_preds, prVars, thrVars, preds, postVars,
                   scoreVars, clinVars, outVars, visVars>>

\* Lines 18-19.
BinarizeMasks ==
    /\ Running("binarize_masks")
    /\ Y_test' = [data |-> [i \in 1..n_test |->
                              [p \in Pixels |-> BinarizeMask(Y_test.data[i][p])]],
                  dtype |-> "uint8"]
    /\ Goto("validate")
    /\ UNCHANGED <<envVars, n_test, raw_preds, prVars, thrVars, preds, postVars,
                   scoreVars, clinVars, outVars, visVars>>

\* Lines 22-23.
Validate ==
    /\ Running("validate")
    /\ IF ~MasksBinary(Y_test.data)
       THEN Raise("AssertionError: Masks must be binary (0-1)")
       ELSE IF ~MasksUint8(Y_test.dtype)
       THEN Raise("AssertionError: Masks should be uint8 type")
       ELSE Goto("predict")
    /\ UNCHANGED <<envVars, loadVars, raw_preds, prVars, thrVars, preds, postVars,
                   scoreVars, clinVars, outVars, visVars>>

\* Lines 26-27.
Predict ==
    /\ Running("predict")
    /\ raw_preds' = [i \in 1..n_test |-> ModelPredict(test_images_npy[i])]
    /\ Goto("check_range")
    /\ UNCHANGED <<envVars, loadVars, prVars, thrVars, preds, postVars,
                   scoreVars, clinVars, outVars, visVars>>

\* Lines 30-31.
CheckRange ==
    /\ Running("check_range")
    /\ IF \A i \in 1..n_test : \A p \in Pixels : InRange(raw_preds[i][p])
       THEN Goto("pr_curve")
       ELSE Raise("AssertionError: Model outputs out of [0,1] range")
    /\ UNCHANGED <<envVars, loadVars, raw_preds, prVars, thrVars, preds, postVars,
                   scoreVars, clinVars, outVars, visVars>>

\* Lines 34-37.
PRCurve ==
    /\ Running("pr_curve")
    /\ LET c == PrecisionRecallCurve(lib, Y_test.data, raw_preds, n_test)
       IN  /\ precisions' = c.precisions
           /\ recalls' = c.recalls
           /\ thresholds' = c.thresholds
    /\ Goto("argmax")
    /\ UNCHANGED <<envVars, loadVars, raw_preds, thrVars, preds, postVars,
                   scoreVars, clinVars, outVars, visVars>>

\* Line 38.
SelectIndex ==
    /\ Running("argmax")
    /\ optimal_idx' = ArgMax(F1Scores(precisions, recalls))
    /\ Goto("pick")
    /\ UNCHANGED <<envVars, loadVars, raw_preds, prVars, optimal_threshold, preds,
                   postVars, scoreVars, clinVars, outVars, visVars>>

\* Line 39: thresholds[optimal_idx], an IndexError past the end.
PickThreshold ==
    /\ Running("pick")
    /\ IF optimal_idx < Len(thresholds)
       THEN optimal_threshold' = thresholds[optimal_idx + 1] /\ Goto("threshold")
       ELSE optimal_threshold' = optimal_threshold /\ Raise("IndexError")
    /\ UNCHANGED <<envVars, loadVars, raw_preds, prVars, optimal_idx, preds,
                   postVars, scoreVars, clinVars, outVars, visVars>>

\* Lines 42-46.
Threshold ==
    /\ Running("threshold")
    /\ preds' = [i \in 1..n_test |->
                    [p \in Pixels |-> Binarize(raw_preds[i][p], optimal_threshold)]]
    /\ img' = 1
    /\ postprocessed_preds' = <<>>
    /\ Goto("post_close")
    /\ UNCHANGED <<envVars, loadVars, raw_preds, prVars, thrVars, processed, comps,
                   scoreVars, clinVars, outVars, visVars>>

\* Lines 48-52.
PostClose ==
    /\ Running("post_close")
    /\ processed' = MorphClose(LoopMask(preds, img))
    /\ Goto("post_label")
    /\ UNCHANGED <<envVars, loadVars, raw_preds, prVars, thrVars, preds, img, comps,
                   postprocessed_preds, scoreVars, clinVars, outVars, visVars>>

\* Line 55.
PostLabel ==
    /\ Running("post_label")
    /\ comps' = ConnectedComponents(processed)
    /\ Goto("post_filter")
    /\ UNCHANGED <<envVars, loadVars, raw_preds, prVars, thrVars, preds, img,
                   processed, postprocessed_preds, scoreVars, clinVars, outVars,
                   visVars>>

\* Lines 57-62.
PostFilter ==
    /\ Running("post_filter")
    /\ processed' = SizeFilter(processed, comps)
    /\ Goto("post_append")
    /\ UNCHANGED <<envVars, loadVars, raw_preds, prVars, thrVars, preds, img, comps,
                   postprocessed_preds, scoreVars, clinVars, outVars, visVars>>

\* Line 64, and the loop's next iteration or its end.
PostAppend ==
    /\ Running("post_append")
    /\ postprocessed_preds' = Append(postprocessed_preds, processed)
    /\ img' = img + 1
    /\ Goto(IF img < n_test THEN "post_close" ELSE "scores")
    /\ UNCHANGED <<envVars, loadVars, raw_preds, prVars, thrVars, preds, processed,
                   comps, scoreVars, clinVars, outVars, visVars>>

\* Lines 66-81 (line 66 only adds the channel axis).
Scores ==
    /\ Running("scores")
    /\ original_dice' = DiceScore(Y_test.data, preds, n_test)
    /\ original_iou' = JaccardScore(Y_test.data, preds, n_test)
    /\ processed_dice' = DiceScore(Y_test.data, postprocessed_preds, n_test)
    /\ processed_iou' = JaccardScore(Y_test.data, postprocessed_preds, n_test)
    /\ Goto("report")
    /\ UNCHANGED <<envVars, loadVars, raw_preds, prVars, thrVars, preds, postVars,
                   clinVars, outVars, visVars>>

\* Lines 83-85.
Report ==
    /\ Running("report")
    /\ printed' = printed \o <<"Optimal Threshold", "Dice", "IoU">>
    /\ Goto("confusion")
    /\ UNCHANGED <<envVars, loadVars, raw_preds, prVars, thrVars, preds, postVars,
                   scoreVars, clinVars, files, visVars>>

\* Lines 87-91: unpacking needs exactly four values.
Confusion ==
    /\ Running("confusion")
    /\ LET r == ConfusionRavel(Y_test.data, postprocessed_preds, n_test)
       IN  IF Len(r) = 4
           THEN /\ confusion' = [tn |-> r[1], fp |-> r[2], fn |-> r[3], tp |-> r[4]]
                /\ Goto("clinical")
           ELSE /\ confusion' = confusion
                /\ Raise("ValueError: not enough values to unpack")
    /\ UNCHANGED <<envVars, loadVars, raw_preds, prVars, thrVars, preds, postVars,
                   scoreVars, sensitivity, specificity, precision, outVars, visVars>>

\* Lines 92-94.
Clinical ==
    /\ Running("clinical")
    /\ sensitivity' = NpDivide(confusion.tp, confusion.tp + confusion.fn)
    /\ specificity' = NpDivide(confusion.tn, confusion.tn + confusion.fp)
    /\ precision' = NpDivide(confusion.tp, confusion.tp + confusion.fp)
    /\ Goto("print_clinical")
    /\ UNCHANGED <<envVars, loadVars, raw_preds, prVars, thrVars, preds, postVars,
                   scoreVars, confusion, outVars, visVars>>

\* Lines 96-99.
PrintClinical ==
    /\ Running("print_clinical")
    /\ printed' = printed \o <<"Clinical Metrics", "Sensitivity", "Specificity",
                               "Precision">>
    /\ Goto("curves")
    /\ UNCHANGED <<envVars, loadVars, raw_preds, prVars, thrVars, preds, postVars,
                   scoreVars, clinVars, files, visVars>>

\* Lines 106-130: roc_curve, auc and precision_recall_curve feed the figure
\* only; with a single class they warn and yield NaN, they do not raise.
Curves ==
    /\ Running("curves")
    /\ files' = files \cup {"performance_curves.png"}
    /\ Goto("sample")
    /\ UNCHANGED <<envVars, loadVars, raw_preds, prVars, thrVars, preds, postVars,
                   scoreVars, clinVars, printed, visVars>>

\* Line 156: fewer than 5 images is a ValueError.
Sample ==
    /\ Running("sample")
    /\ IF n_test < SampleCount
       THEN /\ UNCHANGED visVars
            /\ Raise("ValueError: Cannot take a larger sample than population")
       ELSE /\ sample_indices' \in SampleChoices(n_test)
            /\ vis' = 1
            /\ Goto("visualize")
    /\ UNCHANGED <<envVars, loadVars, raw_preds, prVars, thrVars, preds, postVars,
                   scoreVars, clinVars, outVars>>

\* Lines 157-166, one iteration.
Visualize ==
    /\ Running("visualize")
    /\ files' = files \cup {"visualization_" \o ToString(sample_indices[vis]) \o ".png"}
    /\ printed' = Append(printed, "Saved visualization")
    /\ vis' = vis + 1
    /\ Goto(IF vis < SampleCount THEN "visualize" ELSE "comparison")
    /\ UNCHANGED <<envVars, loadVars, raw_preds, prVars, thrVars, preds, postVars,
                   scoreVars, clinVars, sample_indices>>

\* Lines 169-176.
Comparison ==
    /\ Running("comparison")
    /\ files' = files \cup {"comparison.png"}
    /\ Goto("done")
    /\ UNCHANGED <<envVars, loadVars, raw_preds, prVars, thrVars, preds, postVars,
                   scoreVars, clinVars, printed, visVars>>

Next ==
    \/ Load \/ BinarizeMasks \/ Validate \/ Predict \/ CheckRange
    \/ PRCurve \/ SelectIndex \/ PickThreshold \/ Threshold
    \/ PostClose \/ PostLabel \/ PostFilter \/ PostAppend
    \/ Scores \/ Report \/ Confusion \/ Clinical \/ PrintClinical
    \/ Curves \/ Sample \/ Visualize \/ Comparison

Spec == Init /\ [][Next]_vars

\* ------------------------------------------------------ notions of the claims
Stages == <<"load", "binarize_masks", "validate", "predict", "check_range",
            "pr_curve", "argmax", "pick", "threshold", "post_close", "post_label",
            "post_filter", "post_append", "scores", "report", "confusion",
            "clinical", "print_clinical", "curves", "sample", "visualize",
            "comparison", "done">>
Rank(stage) == CHOOSE i \in 1..Len(Stages) : Stages[i] = stage
\* The statement at `stage` has run to completion.
Passed(stage) == Rank(pc) > Rank(stage)
FailedAt(stage) == pc = stage /\ failure # "none"

\* The maximal 8-connected sets of foreground pixels.
RECURSIVE ComponentsOf(_)
ComponentsOf(fg) ==
    IF fg = {} THEN {}
    ELSE LET seed == RasterFirst(fg)
             c == Flood({seed}, {seed}, fg)
         IN  {c} \cup ComponentsOf(fg \ c)

\* One iteration of the post-processing loop as a function of its mask.
PostProcess(m) ==
    LET closed == MorphClose(m) IN SizeFilter(closed, ConnectedComponents(closed))

\* The iteration of the loop on image img has produced its result.
Filtered == pc = "post_append"
CurrentMask == preds[img]
SingleComponent(m) == Cardinality(ComponentsOf(Foreground(m))) = 1
Area(m) == Cardinality(Foreground(m))

\* ------------------------------------------------------------------ claims
\* C1: in the result of post-processing every connected component has at
\* least 100 pixels; every component of the closed mask with at least 100
\* pixels is in the result, and every smaller one is absent from it.
C1_SizeFilter ==
    Filtered =>
        LET closed == MorphClose(CurrentMask)
            out == Foreground(processed)
        IN  /\ \A c \in ComponentsOf(out) : Cardinality(c) >= MinSize
            /\ \A c \in ComponentsOf(Foreground(closed)) :
                  /\ Cardinality(c) >= MinSize => c \subseteq out
                  /\ Cardinality(c) < MinSize => c \cap out = {}

C1_Witness ==
    /\ Filtered
    /\ \E c \in ComponentsOf(Foreground(MorphClose(CurrentMask))) :
          Cardinality(c) >= MinSize /\ c \subseteq Foreground(processed)
    /\ \E c \in ComponentsOf(Foreground(MorphClose(CurrentMask))) :
          Cardinality(c) < MinSize /\ c \cap Foreground(processed) = {}

\* C2 as stated: a single component of exactly 99 pixels is removed and one
\* of exactly 100 pixels is retained, whatever its shape.
C2_Original ==
    (Filtered /\ SingleComponent(CurrentMask)) =>
        /\ Area(CurrentMask) = MinSize - 1 => processed = Zeros
        /\ Area(CurrentMask) = MinSize =>
              Foreground(CurrentMask) \subseteq Foreground(processed)

\* C2 amended: the size is measured after the closing.  A single component
\* is retained (as its closing) iff its closing has at least 100 pixels; one
\* of exactly 100 pixels is always retained; one of exactly 99 pixels is
\* removed iff the closing adds no pixel to it.
C2_Amended ==
    (Filtered /\ SingleComponent(CurrentMask)) =>
        LET closed == MorphClose(CurrentMask)
        IN  /\ Area(closed) >= MinSize => processed = closed
            /\ Area(closed) < MinSize => processed = Zeros
            /\ Area(CurrentMask) = MinSize =>
                  Foreground(CurrentMask) \subseteq Foreground(processed)
            /\ Area(CurrentMask) = MinSize - 1 =>
                  (processed = Zeros <=> closed = CurrentMask)

C2_Witness ==
    /\ Filtered /\ SingleComponent(CurrentMask)
    /\ Area(CurrentMask) = MinSize - 1
    /\ MorphClose(CurrentMask) # CurrentMask
    /\ Foreground(CurrentMask) \subseteq Foreground(processed)

\* C3: the index of the F1 arg-max is an index of the thresholds array (never
\* the final precision 1 / recall 0 point), so line 39 never fails and the
\* selected threshold is one of the sweep's thresholds, a value in [0,1].
C3_ValidIndex ==
    /\ failure # "IndexError"
    /\ Passed("argmax") =>
          /\ optimal_idx \in 0..(Len(thresholds) - 1)
          /\ optimal_idx # Len(precisions) - 1
    /\ pc = "threshold" =>
          /\ optimal_threshold = thresholds[optimal_idx + 1]
          /\ optimal_threshold >= 0 /\ optimal_threshold <= Scale
          /\ \E i \in 1..n_test : \E p \in Pixels : raw_preds[i][p] = optimal_threshold

NoPositiveTruth == \A i \in 1..n_test : Foreground(Y_test.data[i]) = {}

C3_Witness ==
    /\ pc = "threshold"
    /\ NoPositiveTruth
    /\ Len(thresholds) > 1

\* C4: on a mask that is closed under the 3x3 kernel and has no component
\* smaller than 100 pixels, post-processing returns the mask unchanged, so a
\* second application changes nothing either.
ClosedAndLarge(m) ==
    /\ MorphClose(m) = m
    /\ \A c \in ComponentsOf(Foreground(m)) : Cardinality(c) >= MinSize

C4_Idempotent ==
    (Filtered /\ ClosedAndLarge(CurrentMask)) =>
        /\ processed = CurrentMask
        /\ PostProcess(processed) = processed

C4_Witness ==
    /\ Filtered /\ ClosedAndLarge(CurrentMask)
    /\ Foreground(CurrentMask) # {}
    /\ Foreground(CurrentMask) # Pixels

\* C5 as stated: whenever the confusion-matrix statement runs, the four
\* counts are obtained and they add up to the number of pixels of the batch.
C5_Original ==
    /\ ~FailedAt("confusion")
    /\ Passed("confusion") =>
          confusion.tp + confusion.fp + confusion.fn + confusion.tn
             = n_test * Cardinality(Pixels)

\* C6 as stated: a mask file that is not binary, or not uint8, stops the run
\* at the validation checks, before the model is used, with no repair.
FileBinary == \A i \in 1..Len(test_masks_npy.data) : \A p \in Pixels :
                 test_masks_npy.data[i][p] \in {0, Scale}
FileValid == FileBinary /\ test_masks_npy.dtype = "uint8"

C6_Original == ~FileValid => ~Passed("validate")

\* C6 amended: line 18 replaces the loaded masks by their binarisation
\* (1 where the value exceeds 0.5, else 0) as uint8 before the checks, so
\* both checks pass for every mask file and the run goes on to the model.
C6_Amended ==
    /\ ~FailedAt("validate")
    /\ pc = "validate" =>
          /\ MasksBinary(Y_test.data) /\ MasksUint8(Y_test.dtype)
          /\ \A i \in 1..n_test : \A p \in Pixels :
                Y_test.data[i][p] = 1 <=> 2 * test_masks_npy.data[i][p] > Scale

C6_Witness == ~FileValid /\ Passed("validate")

\* The counts of the flattened batch, from the data.
TruthCount(v) == Cardinality({x \in Flat(n_test) : Y_test.data[x[1]][x[2]] = v})
PredCount(v) == Cardinality({x \in Flat(n_test) : postprocessed_preds[x[1]][x[2]] = v})
ZeroDenominator ==
    TruthCount(1) = 0 \/ TruthCount(0) = 0 \/ PredCount(1) = 0
SingleClass ==
    \/ TruthCount(1) = 0 /\ PredCount(1) = 0
    \/ TruthCount(0) = 0 /\ PredCount(0) = 0
ClinicalPrinted == \E k \in 1..Len(printed) : printed[k] = "Clinical Metrics"

\* C7 as stated: with TP+FN = 0, TN+FP = 0 or TP+FP = 0 the run ends in a
\* failure at the metric computation, with no clinical line and no plot.
C7_Original ==
    (Rank(pc) >= Rank("clinical") /\ ZeroDenominator) =>
        /\ pc = "clinical"
        /\ ~ClinicalPrinted
        /\ files = {}

\* C7 amended: a zero denominator makes the metric NaN and nothing fails at
\* the division: the clinical lines are printed and performance_curves.png
\* is written.  The run fails before them only when truth and prediction
\* hold a single class, at the unpacking of the confusion matrix.
C7_Amended ==
    /\ ~FailedAt("clinical") /\ ~FailedAt("print_clinical") /\ ~FailedAt("curves")
    /\ pc = "print_clinical" =>
          /\ IsNaN(sensitivity) <=> TruthCount(1) = 0
          /\ IsNaN(specificity) <=> TruthCount(0) = 0
          /\ IsNaN(precision) <=> PredCount(1) = 0
    /\ Passed("print_clinical") => ClinicalPrinted
    /\ Passed("curves") => "performance_curves.png" \in files
    /\ pc = "clinical" => ~SingleClass
    /\ FailedAt("confusion") => SingleClass /\ ~ClinicalPrinted /\ files = {}

C7_Witness ==
    /\ pc = "sample"
    /\ IsNaN(precision)
    /\ ZeroDenominator
    /\ ClinicalPrinted /\ "performance_curves.png" \in files

\* C8: the stages run in order and every output follows the three checks.
\* A probability outside [0,1] stops the run at the range check: no
\* threshold is selected, nothing is printed and no file is written.
OutOfRange == \E i \in 1..Len(raw_preds) : \E p \in Pixels :
                 raw_preds[i][p] < 0 \/ raw_preds[i][p] > Scale
ChecksHold ==
    /\ MasksBinary(Y_test.data) /\ MasksUint8(Y_test.dtype)
    /\ raw_preds # <<>> /\ ~OutOfRange

C8_Order ==
    /\ pc = "check_range" =>
          /\ thresholds = <<>> /\ preds = <<>> /\ printed = <<>> /\ files = {}
          /\ failure # "none" => OutOfRange
    /\ pc = "pr_curve" => ChecksHold
    /\ (printed # <<>> \/ files # {}) => Passed("check_range")
    /\ thresholds # <<>> => Passed("pr_curve")
    /\ preds # <<>> => Passed("pick")
    /\ printed # <<>> => Len(postprocessed_preds) = n_test /\ Passed("scores")
    /\ files # {} => ClinicalPrinted /\ Passed("print_clinical")

C8_Witness == OutOfRange /\ FailedAt("check_range")

\* C9: the selected threshold is a probability of some pixel; the binary
\* prediction {p > t} is the positive set {p >= t} scored by the sweep minus
\* the pixels with p = t, a strict subset of it.  If t is the largest
\* probability the prediction is all zero, an image with uniform probability
\* t is predicted all zero, and Dice of all-zero against all-zero is 0.
BatchPixels == Flat(n_test)
C9_Strict ==
    /\ (pc = "post_close" /\ img = 1) =>
          LET pos == {x \in BatchPixels : preds[x[1]][x[2]] = 1}
              swept == {x \in BatchPixels : raw_preds[x[1]][x[2]] >= optimal_threshold}
              ties == {x \in BatchPixels : raw_preds[x[1]][x[2]] = optimal_threshold}
          IN  /\ ties # {}
              /\ pos = swept \ ties
              /\ pos # swept /\ pos \subseteq swept
              /\ precisions[optimal_idx + 1].d = Cardinality(swept)
              /\ (\A x \in BatchPixels : raw_preds[x[1]][x[2]] <= optimal_threshold)
                    => pos = {}
              /\ \A i \in 1..n_test :
                    (\A p \in Pixels : raw_preds[i][p] = optimal_threshold)
                       => preds[i] = Zeros
    /\ (pc = "report" /\ NoPositiveTruth /\ \A i \in 1..n_test : preds[i] = Zeros)
          => original_dice.n = 0 /\ original_dice.d > 0

C9_Witness ==
    /\ pc = "report"
    /\ n_test > 1
    /\ NoPositiveTruth
    /\ \A i \in 1..n_test : preds[i] = Zeros
    /\ \E i \in 1..n_test : \A p \in Pixels : raw_preds[i][p] = optimal_threshold

\* C10: each post-processed mask has the shape of its input and values in
\* {0,1}, is all zero when the closed mask has no foreground (the filter
\* loop is skipped), and is a function of its own image's prediction only.
LoopDone(j) == j <= Len(postprocessed_preds) /\ pc \in {"post_close", "scores"}

C10_Frame ==
    /\ \A j \in 1..n_test : LoopDone(j) =>
          /\ DOMAIN postprocessed_preds[j] = DOMAIN preds[j]
          /\ \A p \in Pixels : postprocessed_preds[j][p] \in {0, 1}
          /\ postprocessed_preds[j] = PostProcess(preds[j])
          /\ Foreground(MorphClose(preds[j])) = {} => postprocessed_preds[j] = Zeros
    /\ (Filtered /\ comps.n_labels <= 1) => processed = Zeros

C10_Witness ==
    /\ pc = "scores" /\ n_test = 2
    /\ postprocessed_preds[1] # postprocessed_preds[2]
    /\ \E j \in 1..2 : Foreground(MorphClose(preds[j])) = {}
====
